---- MODULE Spec2Model ----
(***************************************************************************)
(* Model of the tool-dispatch core of the AI agent (src/main.py) and of    *)
(* the three tools it dispatches to (src/tools).                           *)
(*                                                                         *)
(* Text is modelled as a sequence of lexical tokens: JSON punctuation,     *)
(* string / number / keyword literals, whitespace, the code-fence marker   *)
(* (three backquotes) and bare prose words.  Python values are modelled as *)
(* tagged records (PyStr, PyNum, ..., PyDict).                             *)
(***************************************************************************)
EXTENDS Naturals, Sequences, FiniteSets, TLC

\* Longest run of decoration tokens (whitespace, fences, prose) that the
\* modelled LLM puts before and after the body of its reply.
MaxDecor == 2

----------------------------------------------------------------------------
(* Python values *)

PyNone == [t |-> "none"]
PyStr(s) == [t |-> "str", s |-> s]
PyNum(s) == [t |-> "num", s |-> s]
PyBool(s) == [t |-> "bool", s |-> s]
PyList(items) == [t |-> "list", items |-> items]
PyDict(m) == [t |-> "dict", m |-> m]
\* a str holding LLM text, kept as its token sequence
PyText(toks) == [t |-> "text", toks |-> toks]

EmptyMap == [x \in {} |-> PyNone]

IsDict(v) == v.t = "dict"
IsStrValue(v) == v.t \in {"str", "text"}

\* Python truthiness (bool(v)) of a value
Truthy(v) ==
    CASE v.t = "none" -> FALSE
      [] v.t = "str" -> v.s # ""
      [] v.t = "text" -> v.toks # <<>>
      [] v.t = "num" -> v.s # "0"
      [] v.t = "bool" -> v.s = "true"
      [] v.t = "list" -> v.items # <<>>
      [] v.t = "dict" -> DOMAIN v.m # {}
      [] OTHER -> TRUE

\* hash(v) succeeds: lists and dicts are unhashable
Hashable(v) == v.t \notin {"list", "dict"}

----------------------------------------------------------------------------
(* Tokens of a text *)

P(c) == [k |-> "p", v |-> c]
S(s) == [k |-> "s", v |-> s]
N(s) == [k |-> "n", v |-> s]
L(s) == [k |-> "l", v |-> s]
WS == [k |-> "ws", v |-> " "]
\* the code-fence marker (three backquotes)
FENCE == [k |-> "f", v |-> "fence"]
Word(w) == [k |-> "w", v |-> w]
\* a string literal whose content is itself a text, written with escapes
ST(toks) == [k |-> "st", v |-> toks]
\* the torn half of a string literal that a text cut falls inside of
Torn == [k |-> "x", v |-> "torn"]

\* string contents that hold a closing brace character
BraceStrings == {"a}b"}

IsWs(tok) == tok.k = "ws"
\* the brace c is written in the text
TextHasBrace(toks, c) ==
    \E i \in 1..Len(toks) :
        toks[i] = P(c) \/ (c = "}" /\ toks[i].k = "s" /\ toks[i].v \in BraceStrings)
HasOpenBrace(tok) == tok = P("{") \/ (tok.k = "st" /\ TextHasBrace(tok.v, "{"))
HasCloseBrace(tok) ==
    \/ tok = P("}")
    \/ (tok.k = "s" /\ tok.v \in BraceStrings)
    \/ (tok.k = "st" /\ TextHasBrace(tok.v, "}"))

----------------------------------------------------------------------------
(* str.strip, str.startswith, str.endswith on token sequences *)

RECURSIVE LStrip(_)
LStrip(t) == IF t # <<>> /\ IsWs(Head(t)) THEN LStrip(Tail(t)) ELSE t

RECURSIVE RStrip(_)
RStrip(t) ==
    IF t # <<>> /\ IsWs(t[Len(t)]) THEN RStrip(SubSeq(t, 1, Len(t) - 1)) ELSE t

Strip(t) == RStrip(LStrip(t))

StartsWith(t, p) == Len(t) >= Len(p) /\ SubSeq(t, 1, Len(p)) = p
EndsWith(t, p) == Len(t) >= Len(p) /\ SubSeq(t, Len(t) - Len(p) + 1, Len(t)) = p
DropFirst(t, n) == SubSeq(t, n + 1, Len(t))
DropLast(t, n) == SubSeq(t, 1, Len(t) - n)

----------------------------------------------------------------------------
(* json.loads *)

ParseFail == [ok |-> FALSE, val |-> PyNone, nxt |-> 0]
ParseOk(v, n) == [ok |-> TRUE, val |-> v, nxt |-> n]

RECURSIVE SkipWs(_, _)
SkipWs(t, i) == IF i <= Len(t) /\ IsWs(t[i]) THEN SkipWs(t, i + 1) ELSE i

\* the number a numeric literal stands for, in the form repr writes it
NumberValue(s) == IF s = "1e2" THEN "100.0" ELSE s

LiteralValue(tok) ==
    CASE tok.k = "s" -> PyStr(tok.v)
      [] tok.k = "st" -> PyText(tok.v)
      [] tok.k = "n" -> PyNum(NumberValue(tok.v))
      [] tok.k = "l" /\ tok.v = "null" -> PyNone
      [] OTHER -> PyBool(tok.v)

RECURSIVE ParseValue(_, _)
RECURSIVE ParseMembers(_, _, _)
RECURSIVE ParseItems(_, _, _)

\* one JSON value starting at token i (no leading whitespace)
ParseValue(t, i) ==
    IF i > Len(t) THEN ParseFail
    ELSE IF t[i].k \in {"s", "st", "n", "l"} THEN ParseOk(LiteralValue(t[i]), i + 1)
    ELSE IF t[i] = P("{") THEN
        LET j == SkipWs(t, i + 1) IN
        IF j <= Len(t) /\ t[j] = P("}") THEN ParseOk(PyDict(EmptyMap), j + 1)
        ELSE ParseMembers(t, j, EmptyMap)
    ELSE IF t[i] = P("[") THEN
        LET j == SkipWs(t, i + 1) IN
        IF j <= Len(t) /\ t[j] = P("]") THEN ParseOk(PyList(<<>>), j + 1)
        ELSE ParseItems(t, j, <<>>)
    ELSE ParseFail

\* members of an object from token i (a key is expected at i); a repeated
\* key keeps its last value
ParseMembers(t, i, acc) ==
    IF i > Len(t) \/ t[i].k # "s" THEN ParseFail
    ELSE LET c == SkipWs(t, i + 1) IN
      IF c > Len(t) \/ t[c] # P(":") THEN ParseFail
      ELSE LET r == ParseValue(t, SkipWs(t, c + 1)) IN
        IF ~r.ok THEN ParseFail
        ELSE LET e == SkipWs(t, r.nxt)
                 m == (t[i].v :> r.val) @@ acc
             IN IF e > Len(t) THEN ParseFail
                ELSE IF t[e] = P("}") THEN ParseOk(PyDict(m), e + 1)
                ELSE IF t[e] = P(",") THEN ParseMembers(t, SkipWs(t, e + 1), m)
                ELSE ParseFail

\* items of an array from token i (a value is expected at i)
ParseItems(t, i, acc) ==
    LET r == ParseValue(t, i) IN
    IF ~r.ok THEN ParseFail
    ELSE LET e == SkipWs(t, r.nxt)
             a == Append(acc, r.val)
         IN IF e > Len(t) THEN ParseFail
            ELSE IF t[e] = P("]") THEN ParseOk(PyList(a), e + 1)
            ELSE IF t[e] = P(",") THEN ParseItems(t, SkipWs(t, e + 1), a)
            ELSE ParseFail

\* json.loads(text): [ok, val]; ok = FALSE stands for json.JSONDecodeError
JsonLoads(t) ==
    LET r == ParseValue(t, SkipWs(t, 1)) IN
    IF r.ok /\ SkipWs(t, r.nxt) = Len(t) + 1 THEN [ok |-> TRUE, val |-> r.val]
    ELSE [ok |-> FALSE, val |-> PyNone]

----------------------------------------------------------------------------
(* json.dumps *)

\* keys in the order the serializer writes them
KeyOrder ==
    <<"tool", "parameters", "details", "raw_content", "parsed_content",
      "expression", "expr", "extra", "file_path", "city", "original_query", "a">>

MemberKeys(m) == SelectSeq(KeyOrder, LAMBDA k : k \in DOMAIN m)

RECURSIVE Dumps(_)
RECURSIVE DumpsMembers(_, _)
RECURSIVE DumpsItems(_)

Dumps(v) ==
    CASE v.t = "str" -> <<S(v.s)>>
      [] v.t = "text" -> <<ST(v.toks)>>
      [] v.t = "num" -> <<N(v.s)>>
      [] v.t = "bool" -> <<L(v.s)>>
      [] v.t = "none" -> <<L("null")>>
      [] v.t = "list" -> <<P("[")>> \o DumpsItems(v.items) \o <<P("]")>>
      [] v.t = "dict" -> <<P("{")>> \o DumpsMembers(v.m, MemberKeys(v.m)) \o <<P("}")>>

DumpsMembers(m, keys) ==
    IF keys = <<>> THEN <<>>
    ELSE <<S(Head(keys)), P(":"), WS>> \o Dumps(m[Head(keys)])
         \o (IF Len(keys) > 1 THEN <<P(","), WS>> ELSE <<>>)
         \o DumpsMembers(m, Tail(keys))

DumpsItems(items) ==
    IF items = <<>> THEN <<>>
    ELSE Dumps(Head(items))
         \o (IF Len(items) > 1 THEN <<P(","), WS>> ELSE <<>>)
         \o DumpsItems(Tail(items))

----------------------------------------------------------------------------
(* Exceptions and results of calls *)

Ok(v) == [st |-> "ok", v |-> v]
Exc(type, text) == [st |-> "exc", type |-> type, text |-> text]
IsExc(r) == r.st = "exc"

\* an f-string: fixed text with the values embedded in it
Fmt(template, args) == [t |-> "str", s |-> template, args |-> args]

----------------------------------------------------------------------------
(* AIAgent._determine_tool: interpreting the LLM reply *)

FenceJson == <<FENCE, Word("json")>>

\* the cleaning without its last step, the removal of a trailing fence
CleanResponseKeepsTrailingFence(t) ==
    LET c1 == Strip(t) IN
    IF StartsWith(c1, FenceJson) THEN Strip(DropFirst(c1, 2))
    ELSE IF StartsWith(c1, <<FENCE>>) THEN Strip(DropFirst(c1, 1))
    ELSE c1

\* strip(), then the markdown cleaning
CleanResponse(t) ==
    LET c1 == Strip(t)
        c2 == IF StartsWith(c1, FenceJson) THEN Strip(DropFirst(c1, 2))
              ELSE IF StartsWith(c1, <<FENCE>>) THEN Strip(DropFirst(c1, 1))
              ELSE c1
    IN IF EndsWith(c2, <<FENCE>>) THEN Strip(DropLast(c2, 1)) ELSE c2

OpenPositions(t) == {i \in 1..Len(t) : HasOpenBrace(t[i])}
ClosePositions(t, i) == {j \in (i + 1)..Len(t) : HasCloseBrace(t[j])}
Least(set) == CHOOSE x \in set : \A y \in set : x <= y

\* the text from position i up to the closing brace character found in token j
SpanText(t, i, j) ==
    IF t[i] # P("{") THEN <<Torn>>
    ELSE IF t[j] = P("}") THEN SubSeq(t, i, j) ELSE SubSeq(t, i, j - 1) \o <<Torn>>

\* the search made greedy: from the first opening brace to the last closing one
FallbackSearchGreedy(t) ==
    LET opens == {i \in OpenPositions(t) : ClosePositions(t, i) # {}} IN
    IF opens = {} THEN [found |-> FALSE, span |-> <<>>]
    ELSE LET i == Least(opens)
             j == CHOOSE x \in ClosePositions(t, i) : \A y \in ClosePositions(t, i) : y <= x
         IN [found |-> TRUE, span |-> SpanText(t, i, j)]

\* re.search(r"\{.*?\}", raw, re.DOTALL): the leftmost, shortest brace span
FallbackSearch(t) ==
    LET opens == {i \in OpenPositions(t) : ClosePositions(t, i) # {}} IN
    IF opens = {} THEN [found |-> FALSE, span |-> <<>>]
    ELSE LET i == Least(opens)
             j == Least(ClosePositions(t, i))
         IN [found |-> TRUE, span |-> SpanText(t, i, j)]

ParsingDetailsAfterFallback == "Could not parse JSON from LLM after cleaning and fallback."
ParsingDetailsNothingFound == "Could not parse JSON from LLM, and fallback regex found nothing."
StructureDetails == "LLM response not a dict or missing 'tool' key."

ErrorParsing(details, raw) ==
    PyDict([tool |-> PyStr("error_parsing_llm_response"),
            parameters |-> PyDict([details |-> PyStr(details), raw_content |-> raw])])

ErrorStructure(parsed) ==
    PyDict([tool |-> PyStr("error_invalid_llm_response_structure"),
            parameters |-> PyDict([details |-> PyStr(StructureDetails),
                                   parsed_content |-> parsed])])

\* the sentinel with a fixed text in place of the exception's own
ErrorDeterminationFixedDetails(e) ==
    PyDict([tool |-> PyStr("error_in_tool_determination"),
            parameters |-> PyDict([details |-> PyStr("The LLM call failed.")])])

ErrorDetermination(e) ==
    PyDict([tool |-> PyStr("error_in_tool_determination"),
            parameters |-> PyDict([details |-> PyStr(e.text)])])

\* "Validate basic structure": the parsed value is returned as it is
ValidateStructure(result) ==
    IF ~IsDict(result) \/ "tool" \notin DOMAIN result.m THEN ErrorStructure(result)
    ELSE result

\* the except json.JSONDecodeError branch
Fallback(raw) ==
    LET f == FallbackSearch(raw.toks) IN
    IF f.found THEN
        LET r == JsonLoads(f.span) IN
        IF r.ok THEN ValidateStructure(r.val)
        ELSE ErrorParsing(ParsingDetailsAfterFallback, raw)
    ELSE ErrorParsing(ParsingDetailsNothingFound, raw)

\* the interpretation that turns to the brace-span search also when the
\* parsed value has not the structure of a decision
InterpretResponseFallbackOnInvalid(raw) ==
    IF raw.t # "text" THEN Exc("AttributeError", "object has no attribute 'strip'")
    ELSE LET r == JsonLoads(CleanResponse(raw.toks)) IN
         IF r.ok /\ IsDict(r.val) /\ "tool" \in DOMAIN r.val.m THEN Ok(r.val)
         ELSE Ok(Fallback(raw))

\* the interpretation that goes straight to the brace-span search
InterpretResponseSpanOnly(raw) ==
    IF raw.t # "text" THEN Exc("AttributeError", "object has no attribute 'strip'")
    ELSE Ok(Fallback(raw))

\* the body of the outer try once the completion call has returned raw
InterpretResponse(raw) ==
    IF raw.t # "text" THEN Exc("AttributeError", "object has no attribute 'strip'")
    ELSE LET r == JsonLoads(CleanResponse(raw.toks)) IN
         IF r.ok THEN Ok(ValidateStructure(r.val)) ELSE Ok(Fallback(raw))

\* except Exception as e: of _determine_tool
DeterminationHandlerReraise(e) == e
DeterminationHandler(e) == Ok(ErrorDetermination(e))

\* _determine_tool for one behaviour of the completion call
DetermineTool(llm) ==
    LET r == IF llm.raises THEN Exc("Exception", llm.text)
             ELSE InterpretResponse(llm.content)
    IN IF IsExc(r) THEN DeterminationHandler(r) ELSE r

----------------------------------------------------------------------------
(* The tools: CalculatorTool, FileReaderTool, WeatherFetcherTool *)

PyFloat(s) == [t |-> "float", s |-> s]

\* self.tools of AIAgent.__init__
ToolRegistry == {"calculator", "file_reader", "weather_fetcher"}

\* the parameters of each tool's execute, without self
Signature(tool) ==
    CASE tool = "calculator" -> <<"expression">>
      [] tool = "file_reader" -> <<"file_path">>
      [] tool = "weather_fetcher" -> <<"city">>

Range(seq) == {seq[i] : i \in 1..Len(seq)}

\* tool.execute(**parameters) binds: every parameter is required, none is
\* optional, and no other keyword is accepted
BindsIgnoringExtra(tool, params) == Range(Signature(tool)) \subseteq DOMAIN params
Binds(tool, params) == DOMAIN params = Range(Signature(tool))

\* expressions by what the calculator does with them
BlankExpressions == {"", " "}
InvalidCharExpressions == {"2+2;"}

\* eval(processed_expression, eval_globals, {}) for the expressions used
EvalExpression(s) ==
    CASE s = "2+2" -> [outcome |-> "number", val |-> "4.0"]
      [] s = "1/0" -> [outcome |-> "ZeroDivisionError", val |-> ""]
      [] s = "2+" -> [outcome |-> "SyntaxError", val |-> ""]
      [] s = "sqrt" -> [outcome |-> "not_a_number", val |-> "<built-in function sqrt>"]
      [] s = "sqrt()" -> [outcome |-> "TypeError", val |-> ""]
      [] s = "10**400" -> [outcome |-> "OverflowError", val |-> ""]
      [] OTHER -> [outcome |-> "NameError", val |-> ""]

CalculatorExecute(expression) ==
    IF expression.t # "str" THEN Exc("AttributeError", "object has no attribute 'strip'")
    ELSE IF expression.s \in BlankExpressions THEN Ok(PyStr("Error: Empty expression provided."))
    ELSE IF expression.s \in InvalidCharExpressions THEN
        Ok(Fmt("Error: Expression '{}' contains invalid characters.", <<expression>>))
    ELSE LET r == EvalExpression(expression.s) IN
        CASE r.outcome = "number" -> Ok(PyFloat(r.val))
          [] r.outcome = "not_a_number" ->
                Ok(Fmt("Error: Expression did not evaluate to a number. Result: {}", <<PyStr(r.val)>>))
          [] r.outcome = "ZeroDivisionError" -> Ok(PyStr("Error: Cannot divide by zero."))
          [] r.outcome = "SyntaxError" ->
                Ok(Fmt("Error: Invalid syntax in expression: '{}'.", <<expression>>))
          [] r.outcome = "NameError" ->
                Ok(Fmt("Error: Unknown function or variable in expression: '{}'. Details: {}",
                       <<expression, PyStr(r.outcome)>>))
          [] r.outcome = "TypeError" ->
                Ok(Fmt("Error: Type error in expression '{}'. Check function arguments. Details: {}",
                       <<expression, PyStr(r.outcome)>>))
          [] OTHER ->
                Ok(Fmt("Error calculating expression '{}': {} (Type: {})",
                       <<expression, PyStr(r.outcome), PyStr(r.outcome)>>))

\* the characters of a path: the separator, the dot, and runs of other
\* characters (Word), none of which is the beginning of another
SEP == P("/")
DOT == P(".")
DotDot == <<DOT, DOT>>

\* FILE_READ_BASE_PATH = os.getcwd(), for a process started in /app
FILE_READ_BASE_PATH == <<SEP, Word("app")>>

\* the characters of the path strings that are written as literals
PathText(s) ==
    CASE s = "notes.txt" -> <<Word("notes"), DOT, Word("txt")>>
      [] s = "../secret.txt" -> <<DOT, DOT, SEP, Word("secret"), DOT, Word("txt")>>
      [] OTHER -> <<Word(s)>>

\* the characters of a str value
PathOf(file_path) ==
    IF file_path.t = "text" THEN file_path.toks ELSE PathText(file_path.s)

\* os.path.isabs(p)
IsAbs(p) == StartsWith(p, <<SEP>>)

\* os.path.join(a, p)
Join(a, p) ==
    IF IsAbs(p) THEN p
    ELSE IF a = <<>> \/ EndsWith(a, <<SEP>>) THEN a \o p
    ELSE a \o <<SEP>> \o p

\* p.split('/')
RECURSIVE SplitSep(_)
SplitSep(p) ==
    LET seps == {i \in 1..Len(p) : p[i] = SEP} IN
    IF seps = {} THEN <<p>>
    ELSE LET i == CHOOSE k \in seps : \A j \in seps : k <= j
         IN <<SubSeq(p, 1, i - 1)>> \o SplitSep(SubSeq(p, i + 1, Len(p)))

\* '/'.join(comps)
RECURSIVE JoinSep(_)
JoinSep(comps) ==
    IF comps = <<>> THEN <<>>
    ELSE IF Len(comps) = 1 THEN comps[1]
    ELSE comps[1] \o <<SEP>> \o JoinSep(Tail(comps))

\* the loop of posixpath.normpath over the components
RECURSIVE NormComps(_, _, _)
NormComps(comps, new_comps, initial_slashes) ==
    IF comps = <<>> THEN new_comps
    ELSE LET comp == Head(comps) IN
        IF comp \in {<<>>, <<DOT>>} THEN NormComps(Tail(comps), new_comps, initial_slashes)
        ELSE IF \/ comp # DotDot
                \/ (initial_slashes = 0 /\ new_comps = <<>>)
                \/ (new_comps # <<>> /\ new_comps[Len(new_comps)] = DotDot)
        THEN NormComps(Tail(comps), Append(new_comps, comp), initial_slashes)
        ELSE IF new_comps # <<>>
        THEN NormComps(Tail(comps), DropLast(new_comps, 1), initial_slashes)
        ELSE NormComps(Tail(comps), new_comps, initial_slashes)

\* posixpath.normpath(p)
NormPath(p) ==
    IF p = <<>> THEN <<DOT>>
    ELSE LET initial_slashes ==
                 IF ~StartsWith(p, <<SEP>>) THEN 0
                 ELSE IF StartsWith(p, <<SEP, SEP>>) /\ ~StartsWith(p, <<SEP, SEP, SEP>>) THEN 2
                 ELSE 1
             path == [i \in 1..initial_slashes |-> SEP]
                     \o JoinSep(NormComps(SplitSep(p), <<>>, initial_slashes))
         IN IF path = <<>> THEN <<DOT>> ELSE path

\* os.path.abspath(p) in the working directory cwd
AbsPath(cwd, p) == NormPath(IF IsAbs(p) THEN p ELSE Join(cwd, p))

\* ".." in p
HasDotDot(p) == \E i \in 1..(Len(p) - 1) : p[i] = DOT /\ p[i + 1] = DOT

\* what the file system holds at the resolved path
FileStates ==
    {"missing", "directory", "too_large", "pdf_no_library", "pdf_text", "pdf_no_text",
     "pdf_corrupt", "text", "text_long", "text_empty", "not_utf8", "permission_denied"}

\* the file system calls execute makes, in order, once the path checks have
\* passed: os.path.exists, os.path.isfile, os.path.getsize, open
FileCalls(file) ==
    CASE file = "missing" -> <<"exists">>
      [] file = "directory" -> <<"exists", "isfile">>
      [] file \in {"too_large", "pdf_no_library"} -> <<"exists", "isfile", "getsize">>
      [] OTHER -> <<"exists", "isfile", "getsize", "open">>

\* a return of execute with the file system calls made before it
Returned(v, calls, path) ==
    [result |-> Ok(v), touched |-> [i \in 1..Len(calls) |-> [call |-> calls[i], path |-> path]]]

\* execute with only the prefix check of the resolved path
FileReaderRunPrefixCheckOnly(base, file_path, file) ==
    IF ~Truthy(file_path) THEN Returned(PyStr("Error: File path parameter is required."), <<>>, <<>>)
    ELSE IF ~IsStrValue(file_path) THEN
        Returned(Fmt("Error processing file_path '{}': {}", <<file_path, PyStr("TypeError")>>), <<>>, <<>>)
    ELSE LET absolute_filepath == AbsPath(base, Join(base, PathOf(file_path))) IN
        IF ~StartsWith(absolute_filepath, AbsPath(base, base)) THEN
            Returned(PyStr("Error: Access denied. Path is outside allowed directory."), <<>>, <<>>)
        ELSE Returned(PyStr("content"), FileCalls(file), absolute_filepath)

\* FileReaderTool.execute(file_path) with FILE_READ_BASE_PATH = base: what it
\* returns and the file system calls it makes
FileReaderRun(base, file_path, file) ==
    IF ~Truthy(file_path) THEN Returned(PyStr("Error: File path parameter is required."), <<>>, <<>>)
    ELSE IF ~IsStrValue(file_path) THEN
        Returned(Fmt("Error processing file_path '{}': {}", <<file_path, PyStr("TypeError")>>), <<>>, <<>>)
    ELSE LET absolute_filepath == AbsPath(base, Join(base, PathOf(file_path)))
             Touching(v) == Returned(v, FileCalls(file), absolute_filepath)
         IN
        IF ~StartsWith(absolute_filepath, AbsPath(base, base)) THEN
            Returned(PyStr("Error: Access denied. Path is outside allowed directory."), <<>>, <<>>)
        ELSE IF HasDotDot(PathOf(file_path)) THEN
            Returned(PyStr("Error: Path should not contain '..'."), <<>>, <<>>)
        ELSE IF IsAbs(PathOf(file_path)) THEN
            Returned(PyStr("Error: Absolute file paths are not allowed."), <<>>, <<>>)
        ELSE CASE file = "missing" -> Touching(Fmt("Error: File not found at '{}' (resolved: '{}')", <<file_path, PyText(absolute_filepath)>>))
               [] file = "directory" -> Touching(Fmt("Error: Path '{}' is not a file.", <<file_path>>))
               [] file = "too_large" -> Touching(Fmt("Error: File '{}' too large (>{}MB).", <<file_path, PyStr("1.0")>>))
               [] file = "pdf_no_library" -> Touching(PyStr("Error: Cannot read PDF. PyPDF2 library is not installed."))
               [] file = "pdf_no_text" -> Touching(Fmt("Info: PDF file '{}' was read, but no text content could be extracted", <<file_path>>))
               [] file = "pdf_corrupt" -> Touching(Fmt("Error reading PDF '{}': Invalid or corrupted PDF file.", <<file_path>>))
               [] file = "not_utf8" -> Touching(Fmt("Error: Could not decode file '{}' using UTF-8.", <<file_path>>))
               [] file = "permission_denied" -> Touching(Fmt("Error reading text file '{}': {}", <<file_path, PyStr("PermissionError")>>))
               [] file = "text_long" -> Touching(Fmt("{} ... (file content truncated at {} characters)", <<PyStr("content"), PyStr("10000")>>))
               [] file = "text_empty" -> Touching(Fmt("Info: File '{}' is empty or contains no extractable/readable text content after processing.", <<file_path>>))
               [] OTHER -> Touching(PyStr("content"))

FileReaderExecute(file_path, file) == FileReaderRun(FILE_READ_BASE_PATH, file_path, file).result

\* what the weather service does with the request; a body that is no JSON
\* is reported by the requests library as a RequestException or as a plain
\* json.JSONDecodeError, depending on the library's version
NetStates ==
    {"ok", "city_not_found", "http_401", "http_error", "unreachable",
     "bad_json_request_error", "bad_json", "unexpected"}

WeatherFetcherExecute(city, api_key, net) ==
    IF ~Truthy(city) THEN Ok(PyStr("Error: City parameter is required."))
    ELSE IF ~api_key THEN Ok(PyStr("Error: WEATHER_API_KEY is not set in the environment. This tool cannot function."))
    ELSE CASE net = "ok" -> Ok(Fmt("Current weather in {}: ...", <<city>>))
           [] net = "city_not_found" -> Ok(Fmt("Error fetching weather for {}: {}", <<city, PyStr("city not found")>>))
           [] net = "http_401" -> Ok(Fmt("HTTP error fetching weather for {}: {}. (This often indicates an invalid or missing API key)", <<city, PyStr("401")>>))
           [] net = "http_error" -> Ok(Fmt("HTTP error fetching weather for {}: {}.", <<city, PyStr("500")>>))
           [] net = "unreachable" -> Ok(Fmt("Network error connecting to weather service for {}: {}", <<city, PyStr("ConnectionError")>>))
           [] net = "bad_json_request_error" -> Ok(Fmt("Network error connecting to weather service for {}: {}", <<city, PyStr("JSONDecodeError")>>))
           [] net = "bad_json" -> Ok(Fmt("Error: Could not parse weather data response for {}. Raw response: {}", <<city, PyStr("<html>")>>))
           [] OTHER -> Ok(Fmt("An unexpected error occurred while fetching weather for {}: {}", <<city, PyStr("AttributeError")>>))

\* the state of the world a tool runs in
Environments == [file : FileStates, api_key : BOOLEAN, net : NetStates]

\* tool.execute(**parameters)
ToolExecute(tool, params, env) ==
    IF ~Binds(tool, params) THEN Exc("TypeError", "execute() got an unexpected or missing argument")
    ELSE CASE tool = "calculator" -> CalculatorExecute(params["expression"])
           [] tool = "file_reader" -> FileReaderExecute(params["file_path"], env.file)
           [] tool = "weather_fetcher" -> WeatherFetcherExecute(params["city"], env.api_key, env.net)

----------------------------------------------------------------------------
(* AIAgent.process_request *)

\* the sentinel list with the parse-failure sentinel left out
SentinelToolsWithoutParsing ==
    {"error_in_tool_determination", "error_invalid_llm_response_structure"}

\* the tool names that report a failed tool determination
SentinelTools ==
    {"error_parsing_llm_response", "error_in_tool_determination",
     "error_invalid_llm_response_structure"}

TroubleTemplate == "Sorry, I had trouble deciding which tool to use. Details: {}"
NoToolMessage == "I've processed your request. No specific tool was needed, or I couldn't determine one. How else can I help?"
UnknownToolTemplate == "Sorry, I don't know how to use the tool '{}' or it's not available."
IncorrectParametersTemplate == "Error using tool {}: incorrect parameters. Expected: {}. Got: {}. Details: {}"
ToolErrorTemplate == "Sorry, an error occurred while using the {} tool: {}"
UnexpectedTemplate == "An unexpected error occurred: {}"

DictGet(d, key, default) == IF key \in DOMAIN d.m THEN d.m[key] ELSE default

\* tool_selection.get("tool")
ToolName(d) == DictGet(d, "tool", PyNone)

\* tool_selection.get("parameters", {}), replaced by {} when it is no dict
Parameters(d) ==
    LET p == DictGet(d, "parameters", PyDict(EmptyMap)) IN
    IF ~IsDict(p) THEN PyDict(EmptyMap) ELSE p

\* list(parameters.keys())
PyKeys(m) == [t |-> "keys", names |-> DOMAIN m]
\* list(inspect.signature(tool.execute).parameters.keys())
ExpectedParams(tool) == PyList([i \in 1..Len(Signature(tool)) |-> PyStr(Signature(tool)[i])])

\* tool_name in [...the three sentinels...]
IsSentinel(tool_name) == tool_name.t = "str" /\ tool_name.s \in SentinelTools
\* the no-tool test without its second half, the test for an empty value
IsNoToolNamedOnly(tool_name) == tool_name = PyStr("no_tool_needed")
\* tool_name == "no_tool_needed" or not tool_name
IsNoTool(tool_name) == tool_name = PyStr("no_tool_needed") \/ ~Truthy(tool_name)
\* tool_name in self.tools, for a hashable tool_name
InRegistry(tool_name) == tool_name.t = "str" /\ tool_name.s \in ToolRegistry

\* the routing of a decision, up to the tool call: a value to return, a
\* tool to execute, or an exception raised on the way
Route(d) ==
    LET tool_name == ToolName(d)
        parameters == Parameters(d)
    IN IF IsSentinel(tool_name) THEN
           [act |-> "return",
            ret |-> Fmt(TroubleTemplate,
                        <<DictGet(parameters, "details",
                                  PyStr("Unknown error during tool determination."))>>)]
       ELSE IF IsNoTool(tool_name) THEN [act |-> "return", ret |-> PyStr(NoToolMessage)]
       ELSE IF ~Hashable(tool_name) THEN
           [act |-> "raise", exc |-> Exc("TypeError", "unhashable type")]
       ELSE IF ~InRegistry(tool_name) THEN
           [act |-> "return", ret |-> Fmt(UnknownToolTemplate, <<tool_name>>)]
       ELSE [act |-> "execute", tool |-> tool_name.s]

\* return result  # Return raw result
SuccessReturnFormatted(result) == Fmt("Result: {}", <<result>>)
SuccessReturn(result) == result

\* except TypeError as te: of the tool call
TypeErrorHandler(tool, params, te) ==
    Fmt(IncorrectParametersTemplate,
        <<PyStr(tool), ExpectedParams(tool), PyKeys(params.m), PyStr(te.text)>>)

\* except Exception as e: of the tool call
ToolErrorHandler(tool, e) == Fmt(ToolErrorTemplate, <<PyStr(tool), PyStr(e.text)>>)

\* the try around tool.execute: what process_request returns after the call
AfterExecute(tool, params, result) ==
    IF ~IsExc(result) THEN SuccessReturn(result.v)
    ELSE IF result.type = "TypeError" THEN TypeErrorHandler(tool, params, result)
    ELSE ToolErrorHandler(tool, result)

\* except Exception as e: of process_request, the catch-all
OuterHandlerReraise(e) == e
OuterHandler(e) == Ok(Fmt(UnexpectedTemplate, <<PyStr(e.text)>>))

----------------------------------------------------------------------------
(* The inputs: user requests and the behaviours of the completion call *)

UserInputs == {"What is 2+2?", "hello"}

Obj1(k, v) == PyDict(k :> v)
Obj2(k1, v1, k2, v2) == PyDict((k1 :> v1) @@ (k2 :> v2))

\* values the LLM gives for "tool"
ToolValues ==
    {PyStr(n) : n \in ToolRegistry}
    \cup {PyStr("translator"), PyStr("no_tool_needed"), PyStr(""),
          PyStr("error_parsing_llm_response"),
          PyNum("5"), PyNum("0"), PyNone, PyBool("true"),
          PyList(<<PyStr("x")>>), PyList(<<>>), Obj1("a", PyNum("1")),
          PyDict(EmptyMap)}

\* values the LLM gives for "parameters"
ParameterValues ==
    {PyDict(EmptyMap),
     Obj1("expression", PyStr("2+2")), Obj1("expr", PyStr("2+2")),
     Obj2("expression", PyStr("2+2"), "extra", PyStr("1")),
     Obj1("expression", PyNum("5")), Obj1("expression", PyStr("")),
     Obj1("expression", PyStr("1/0")), Obj1("expression", PyStr("2+2;")),
     Obj1("expression", PyStr("sqrt()")), Obj1("expression", PyStr("10**400")),
     Obj1("expression", PyNone), Obj1("expression", PyList(<<PyStr("2+2")>>)),
     Obj1("city", PyStr("Paris")), Obj1("city", PyStr("")),
     Obj1("city", PyNum("5")), Obj1("city", PyNone), Obj1("file_path", PyNum("5")),
     Obj1("file_path", PyStr("notes.txt")), Obj1("file_path", PyStr("../secret.txt")),
     Obj1("file_path", PyList(<<PyStr("notes.txt")>>)),
     Obj1("details", PyStr("made up")),
     PyStr("2+2"), PyList(<<>>), PyNone}

\* the JSON documents the LLM writes
DecisionValues ==
    {Obj1("tool", tv) : tv \in ToolValues}
    \cup {Obj2("tool", tv, "parameters", pv) : tv \in ToolValues, pv \in ParameterValues}

OtherValues ==
    {PyNum("5"), PyStr("calculator"), PyNone, PyList(<<>>),
     PyList(<<Obj1("tool", PyStr("calculator"))>>),
     PyDict(EmptyMap), Obj1("parameters", PyDict(EmptyMap))}

\* decisions that are written with text around them
FlatDecision == Obj1("tool", PyStr("no_tool_needed"))
NestedDecision ==
    Obj2("tool", PyStr("weather_fetcher"), "parameters", Obj1("city", PyStr("Paris")))
EmptyParametersDecision == Obj2("tool", PyStr("calculator"), "parameters", PyDict(EmptyMap))
EmbeddedDecisions == {FlatDecision, NestedDecision, EmptyParametersDecision}

\* the bodies that are written with text around them
CoreBodies ==
    {Dumps(d) : d \in EmbeddedDecisions}
    \cup
    {Dumps(Obj1("tool", PyStr("a}b"))),
     Dumps(PyList(<<Obj1("tool", PyStr("calculator"))>>)),
     Dumps(PyNum("5")),
     <<P("{"), S("parameters"), P(":"), P("{"), P("}"), P(","), S("tool"), P(":"), S("translator"), P("}")>>,
     <<P("{"), S("tool"), P("}")>>,
     <<P("{")>>,
     <<>>}

\* what is written around a body: whitespace, fence markers and the word
\* json (a fence's language tag, or a bare word of prose)
DecorTokens == {WS, FENCE, Word("json")}
Decorations == UNION {[1..n -> DecorTokens] : n \in 0..MaxDecor}

\* prose before and after a body
ProseBefore == {<<>>, <<Word("Sure"), WS>>}
ProseAfter == {<<>>, <<WS, Word("Hope")>>}

\* replies written token by token: a number in exponent form; an object
\* that does not parse followed by one that does; a decision after an opening
\* brace that is never closed
HandWrittenTexts ==
    {<<P("{"), S("tool"), P(":"), S("calculator"), P(","), S("parameters"), P(":"),
       P("{"), S("expression"), P(":"), N("1e2"), P("}"), P("}")>>,
     <<P("{"), S("tool"), P("}"), WS>> \o Dumps(FlatDecision),
     <<Word("Sure"), WS>> \o Dumps(FlatDecision) \o <<WS>> \o Dumps(FlatDecision),
     <<P("{"), WS, Word("see"), WS>> \o Dumps(FlatDecision)}

ReplyTexts ==
    {Dumps(v) : v \in DecisionValues \cup OtherValues}
    \cup HandWrittenTexts
    \cup {pre \o body \o suf : pre \in Decorations, body \in CoreBodies, suf \in Decorations}
    \cup {pre \o body \o suf : pre \in ProseBefore, body \in CoreBodies, suf \in ProseAfter}

\* what client.chat.completions.create(...) does: it raises, or the message
\* content it returns is a text or no text at all
\* str(e) of the exceptions the completion call raises
ExceptionTexts == {"boom", "Connection error."}

LLMBehaviours ==
    {[raises |-> TRUE, text |-> x, content |-> PyNone] : x \in ExceptionTexts}
    \cup {[raises |-> FALSE, text |-> "", content |-> c] : c \in {PyNone, PyNum("5")}}
    \cup {[raises |-> FALSE, text |-> "", content |-> PyText(t)] : t \in ReplyTexts}

----------------------------------------------------------------------------
(* Agent construction and the two front ends: run_cli and the chat function *)

\* Most inputs a front end reads in one run.
MaxLines == 3

\* self.system_message of AIAgent.__init__
SystemMessage == "You are a helpful AI assistant. You have access to several tools."

\* the attributes of a constructed AIAgent
AgentObject == [st |-> "agent", tools |-> ToolRegistry, system_message |-> SystemMessage]
\* the None that initialize_agent returns on failure
NoAgent == [st |-> "none"]

\* what construction finds: TOGETHER_API_KEY set or not, Together() raising or not
StartupEnvs == [key : BOOLEAN, client_raises : BOOLEAN]

\* AIAgent.__init__
AgentConstructor(e) ==
    IF ~e.key THEN Exc("ValueError", "TOGETHER_API_KEY not set in environment.")
    ELSE IF e.client_raises THEN Exc("Exception", "client")
    ELSE Ok(AgentObject)

\* initialize_agent with the constructor's exception lost and the agent kept
InitializeAgentIgnoringFailure(e) == IF ~e.key THEN NoAgent ELSE AgentObject

\* initialize_agent
InitializeAgent(e) ==
    IF ~e.key THEN NoAgent
    ELSE LET r == AgentConstructor(e) IN IF IsExc(r) THEN NoAgent ELSE r.v

\* the messages of the completion call with words about earlier requests in them
MessagesWithHistory(agent_object, u, earlier) ==
    [system |-> agent_object.system_message,
     tools |-> agent_object.tools,
     request |-> IF earlier > 0 THEN <<Word("earlier"), WS>> \o u ELSE u]

\* messages = [self.system_message, {"role": "user", "content": prompt_content}]:
\* the system message, the tool descriptions and the user's request
Messages(agent_object, u, earlier) ==
    [system |-> agent_object.system_message, tools |-> agent_object.tools, request |-> u]

\* str.lower on the words used
LowerWord(w) ==
    CASE w \in {"Exit", "EXIT"} -> "exit"
      [] w \in {"Quit", "QUIT"} -> "quit"
      [] w = "Hello" -> "hello"
      [] OTHER -> w

\* the comparison of the line made without lower()
LowerKeepingCase(t) == t

\* str.lower
Lower(t) == [i \in 1..Len(t) |-> IF t[i].k = "w" THEN Word(LowerWord(t[i].v)) ELSE t[i]]

\* user_input.lower() in ["exit", "quit"]
IsExitCommand(t) == Lower(t) \in {<<Word("exit")>>, <<Word("quit")>>}

\* the lines typed at the prompt
CliLines ==
    {<<Word("exit")>>, <<WS, Word("Quit"), WS>>, <<>>, <<WS>>,
     <<Word("hello")>>, <<WS, Word("2+2")>>, <<Word("exit"), WS, Word("now")>>}

\* what input() does: it returns a line or raises EOFError, KeyboardInterrupt
\* or another exception
CliEvents ==
    {[kind |-> "line", text |-> l] : l \in CliLines}
    \cup {[kind |-> k, text |-> <<>>] : k \in {"eof", "interrupt", "error"}}

NoEvent == [kind |-> "none", text |-> <<>>]

ExitingMessage == PyStr("Exiting agent.")
FailedToInitializeMessage == PyStr("Failed to initialize the AI Agent. Exiting CLI.")
CliBanner == PyStr("AI Agent CLI initialized. Type 'exit' or 'quit' to end.")
CriticalErrorTemplate == "An critical error occurred: {}"

\* the messages sent to the chat function, and the fate of an uploaded file
ChatMessages == {<<>>, <<WS, Word("hello"), WS>>}
Uploads == {"none", "saved", "copy_fails"}

NotInitializedMessage == PyStr("Error: Agent not initialized. Check logs.")
EnterQueryMessage == PyStr("Please enter a query, or upload a file and optionally add a query.")
UploadErrorTemplate == "Error processing uploaded file: {}"
InternalErrorTemplate == "Sorry, an internal error occurred: {}"

\* upload_info and the newline after it
UploadInfo == <<Word("(User uploaded file)"), WS>>

\* processed_input of agent_chat_interface once the upload was saved or absent
ChatInput(message, upload) ==
    LET processed_input == Strip(message) IN
    IF upload = "saved"
    THEN UploadInfo \o (IF processed_input # <<>> THEN processed_input
                        ELSE <<Word("What is in this file?")>>)
    ELSE processed_input

\* str(response)
Str(v) == IF v.t = "float" THEN PyStr(v.s) ELSE v

\* what agent_chat_interface returns after agent.process_request
ChatAnswer(r) == IF IsExc(r) THEN Fmt(InternalErrorTemplate, <<PyStr(r.text)>>) ELSE Str(r.v)

\* the requests that reach process_request from the front ends
AppInputs ==
    {Strip(l) : l \in {x \in CliLines : Strip(x) # <<>> /\ ~IsExitCommand(Strip(x))}}
    \cup ({ChatInput(m, u) : m \in ChatMessages, u \in {"none", "saved"}} \ {<<>>})

\* the replies of the LLM stubs
RaisingBehaviour == [raises |-> TRUE, text |-> "boom", content |-> PyNone]
ProseBehaviour == [raises |-> FALSE, text |-> "", content |-> PyText(<<Word("Sure")>>)]
DecisionBehaviour(tool, name, value) ==
    [raises |-> FALSE, text |-> "",
     content |-> PyText(Dumps(Obj2("tool", PyStr(tool), "parameters", Obj1(name, PyStr(value)))))]

Prompts == {Messages(AgentObject, u, 0) : u \in AppInputs}

\* LLM stubs: each a function of the messages it is sent
Stubs ==
    {[p \in Prompts |-> RaisingBehaviour],
     [p \in Prompts |-> ProseBehaviour],
     [p \in Prompts |->
        IF p.request = <<Word("2+2")>> THEN DecisionBehaviour("calculator", "expression", "2+2")
        ELSE DecisionBehaviour("weather_fetcher", "city", "Paris")],
     [p \in Prompts |->
        IF p.request = <<Word("hello")>> THEN DecisionBehaviour("no_tool_needed", "original_query", "hello")
        ELSE DecisionBehaviour("file_reader", "file_path", "notes.txt")]}

\* a stub's reply to messages; messages it has no entry for make it raise
StubReply(s, messages) ==
    IF messages \in DOMAIN s THEN s[messages]
    ELSE [raises |-> TRUE, text |-> "unexpected prompt", content |-> PyNone]

\* the worlds the deterministic tools run in
Worlds ==
    {[file |-> "text", api_key |-> TRUE, net |-> "ok"],
     [file |-> "missing", api_key |-> FALSE, net |-> "unreachable"]}

----------------------------------------------------------------------------
(* The state machine *)

VARIABLES
    pc,           \* where process_request stands
    user_input,   \* the request being processed
    llm,          \* what the completion call did
    decision,     \* what _determine_tool returned
    tool_result,  \* what tool.execute did
    ret,          \* what process_request returned or raised
    llm_calls,    \* completion calls made for this request
    tool_calls,   \* tool.execute calls made for this request
    frontend,     \* who calls process_request: a caller, run_cli or the chat function
    startup,      \* what construction found
    agent,        \* what initialize_agent returned
    stub,         \* the LLM stub behind the client
    world,        \* the world the tools run in
    fpc,          \* where the front end stands
    reads,        \* inputs the front end has read
    line,         \* the input read last
    out,          \* what the front end printed or answered last
    seen,         \* history: the first result returned for each request
    path_arg,     \* the file_path a direct call of FileReaderTool.execute is given
    base_path,    \* FILE_READ_BASE_PATH of that call
    touched       \* the file system calls that call has made

appvars == <<frontend, startup, agent, stub, world, fpc, reads, line, out, seen,
            <<path_arg, base_path, touched>>>>

vars ==
    <<pc, user_input, llm, decision, tool_result, ret, llm_calls, tool_calls,
      frontend, startup, agent, stub, world, fpc, reads, line, out, seen,
      path_arg, base_path, touched>>

None == [st |-> "none"]
NoBehaviour == [raises |-> FALSE, text |-> "", content |-> PyNone]

Init ==
    /\ pc = "idle"
    /\ user_input = ""
    /\ llm = NoBehaviour
    /\ decision = None
    /\ tool_result = None
    /\ ret = None
    /\ llm_calls = 0
    /\ tool_calls = 0
    /\ frontend = "caller"
    /\ startup = [key |-> TRUE, client_raises |-> FALSE]
    /\ agent = InitializeAgent(startup)
    /\ stub = <<>>
    /\ world = [file |-> "text", api_key |-> TRUE, net |-> "ok"]
    /\ fpc = "prompt"
    /\ reads = 0
    /\ line = NoEvent
    /\ out = None
    /\ seen = <<>>
    /\ path_arg = PyNone
    /\ base_path = FILE_READ_BASE_PATH
    /\ touched = <<>>

\* a caller invokes process_request(user_input)
ProcessRequest ==
    /\ pc = "idle"
    /\ \E u \in UserInputs : user_input' = u
    /\ pc' = "determine"
    /\ UNCHANGED <<llm, decision, tool_result, ret, llm_calls, tool_calls>>
    /\ UNCHANGED appvars

\* the completion call made again, once, after it has raised
CallLLMRetrying ==
    /\ pc = "determine"
    /\ \E b \in LLMBehaviours :
         /\ llm' = b
         /\ pc' = IF b.raises /\ llm_calls = 0 THEN "determine" ELSE "interpret"
    /\ llm_calls' = llm_calls + 1
    /\ UNCHANGED <<user_input, decision, tool_result, ret, tool_calls>>
    /\ UNCHANGED appvars

\* _determine_tool: the completion call
CallLLM ==
    /\ pc = "determine"
    /\ \E b \in LLMBehaviours : llm' = b
    /\ llm_calls' = llm_calls + 1
    /\ pc' = "interpret"
    /\ UNCHANGED <<user_input, decision, tool_result, ret, tool_calls>>
    /\ UNCHANGED appvars

\* _determine_tool: from the completion call's outcome to the decision; an
\* exception that leaves _determine_tool reaches the catch-all
Interpret ==
    /\ pc = "interpret"
    /\ decision' = DetermineTool(llm)
    /\ IF IsExc(decision')
       THEN pc' = "done" /\ ret' = OuterHandler(decision')
       ELSE pc' = "dispatch" /\ ret' = ret
    /\ UNCHANGED <<user_input, llm, tool_result, llm_calls, tool_calls>>
    /\ UNCHANGED appvars

\* process_request: from the decision to a returned message or to the tool
Dispatch ==
    /\ pc = "dispatch"
    /\ LET r == Route(decision.v) IN
        CASE r.act = "return" -> pc' = "done" /\ ret' = Ok(r.ret)
          [] r.act = "raise" -> pc' = "done" /\ ret' = OuterHandler(r.exc)
          [] OTHER -> pc' = "execute" /\ ret' = ret
    /\ UNCHANGED <<user_input, llm, decision, tool_result, llm_calls, tool_calls>>
    /\ UNCHANGED appvars

\* process_request: the tool call in the world env, and what is returned
\* after it
ExecuteIn(env) ==
    /\ pc = "execute"
    /\ LET tool == ToolName(decision.v).s
           params == Parameters(decision.v)
           result == ToolExecute(tool, params.m, env)
       IN /\ tool_result' = result
          /\ ret' = Ok(AfterExecute(tool, params, result))
    /\ tool_calls' = tool_calls + 1
    /\ pc' = "done"
    /\ UNCHANGED <<user_input, llm, decision, llm_calls>>
    /\ UNCHANGED appvars

Execute == \E env \in Environments : ExecuteIn(env)

\* the caller takes the result; nothing of the request is kept
Return ==
    /\ pc = "done"
    /\ pc' = "idle"
    /\ user_input' = ""
    /\ llm' = NoBehaviour
    /\ decision' = None
    /\ tool_result' = None
    /\ ret' = None
    /\ llm_calls' = 0
    /\ tool_calls' = 0
    /\ UNCHANGED appvars

Next ==
    \/ ProcessRequest
    \/ CallLLM
    \/ Interpret
    \/ Dispatch
    \/ Execute
    \/ Return

Spec == Init /\ [][Next]_vars

----------------------------------------------------------------------------
(* The agent behind its front ends, with an LLM stub and deterministic tools *)

requestvars == <<pc, user_input, llm, decision, tool_result, ret, llm_calls, tool_calls>>

\* the state after initialize_agent, called by run_cli or on import of app.py
AppInit ==
    /\ pc = "idle"
    /\ user_input = ""
    /\ llm = NoBehaviour
    /\ decision = None
    /\ tool_result = None
    /\ ret = None
    /\ llm_calls = 0
    /\ tool_calls = 0
    /\ frontend \in {"cli", "chat"}
    /\ startup \in StartupEnvs
    /\ agent = InitializeAgent(startup)
    /\ stub \in Stubs
    /\ world \in Worlds
    /\ fpc = IF frontend = "cli" THEN "start" ELSE "prompt"
    /\ reads = 0
    /\ line = NoEvent
    /\ out = None
    /\ seen = [u \in AppInputs |-> None]
    /\ path_arg = PyNone
    /\ base_path = FILE_READ_BASE_PATH
    /\ touched = <<>>

\* agent.process_request(u) is entered
EnterRequest(u) ==
    /\ pc' = "determine"
    /\ user_input' = u
    /\ UNCHANGED <<llm, decision, tool_result, ret, llm_calls, tool_calls>>

\* process_request is left: nothing of the request is kept
ForgetRequest ==
    /\ pc' = "idle"
    /\ user_input' = ""
    /\ llm' = NoBehaviour
    /\ decision' = None
    /\ tool_result' = None
    /\ ret' = None
    /\ llm_calls' = 0
    /\ tool_calls' = 0

\* the history of first results, for the request that is ending
Remember == [seen EXCEPT ![user_input] = IF @ = None THEN ret ELSE @]

\* run_cli: the check of the agent before the loop
CliStart ==
    /\ frontend = "cli"
    /\ fpc = "start"
    /\ IF agent.st = "none"
       THEN fpc' = "exited" /\ out' = FailedToInitializeMessage
       ELSE fpc' = "prompt" /\ out' = CliBanner
    /\ UNCHANGED <<requestvars, frontend, startup, agent, stub, world, reads, line, seen, path_arg, base_path, touched>>

\* run_cli: one pass of the loop, from input() to the call of process_request
CliRead ==
    /\ frontend = "cli"
    /\ fpc = "prompt"
    /\ pc = "idle"
    /\ reads < MaxLines
    /\ \E ev \in CliEvents :
         /\ line' = ev
         /\ LET u == Strip(ev.text) IN
            IF ev.kind \in {"eof", "interrupt"} THEN
                fpc' = "exited" /\ out' = ExitingMessage /\ UNCHANGED requestvars
            ELSE IF ev.kind = "error" THEN
                /\ fpc' = "prompt"
                /\ out' = Fmt(CriticalErrorTemplate, <<PyStr("input")>>)
                /\ UNCHANGED requestvars
            ELSE IF IsExitCommand(u) THEN
                fpc' = "exited" /\ out' = ExitingMessage /\ UNCHANGED requestvars
            ELSE IF u = <<>> THEN
                fpc' = "prompt" /\ out' = out /\ UNCHANGED requestvars
            ELSE fpc' = "handling" /\ out' = out /\ EnterRequest(u)
    /\ reads' = reads + 1
    /\ UNCHANGED <<frontend, startup, agent, stub, world, seen, path_arg, base_path, touched>>

\* _determine_tool: the completion call, answered by the stub
AppCallLLM ==
    /\ pc = "determine"
    /\ llm' = StubReply(stub, Messages(agent, user_input, reads - 1))
    /\ llm_calls' = llm_calls + 1
    /\ pc' = "interpret"
    /\ UNCHANGED <<user_input, decision, tool_result, ret, tool_calls>>
    /\ UNCHANGED appvars

\* tool.execute in the world of this run
AppExecute == ExecuteIn(world)

\* run_cli: print(response), which may raise; the loop goes on either way
CliPrint ==
    /\ frontend = "cli"
    /\ fpc = "handling"
    /\ pc = "done"
    /\ \E printed \in BOOLEAN :
         out' = IF IsExc(ret) THEN Fmt(CriticalErrorTemplate, <<PyStr(ret.text)>>)
                ELSE IF ~printed THEN Fmt(CriticalErrorTemplate, <<PyStr("print")>>)
                ELSE ret.v
    /\ fpc' = "prompt"
    /\ seen' = Remember
    /\ ForgetRequest
    /\ UNCHANGED <<frontend, startup, agent, stub, world, reads, line, path_arg, base_path, touched>>

\* run_cli: KeyboardInterrupt while the request is handled: no handler of
\* process_request catches it, the loop's own handler ends the loop
CliInterrupt ==
    /\ frontend = "cli"
    /\ fpc = "handling"
    /\ fpc' = "exited"
    /\ out' = ExitingMessage
    /\ ForgetRequest
    /\ UNCHANGED <<frontend, startup, agent, stub, world, reads, line, seen, path_arg, base_path, touched>>

\* agent_chat_interface, up to the call of process_request
ChatMessage ==
    /\ frontend = "chat"
    /\ fpc = "prompt"
    /\ pc = "idle"
    /\ reads < MaxLines
    /\ \E m \in ChatMessages, up \in Uploads :
         /\ line' = [kind |-> "message", text |-> m, upload |-> up]
         /\ IF agent.st = "none" THEN
                fpc' = "prompt" /\ out' = NotInitializedMessage /\ UNCHANGED requestvars
            ELSE IF up = "copy_fails" THEN
                /\ fpc' = "prompt"
                /\ out' = Fmt(UploadErrorTemplate, <<PyStr("copy")>>)
                /\ UNCHANGED requestvars
            ELSE IF ChatInput(m, up) = <<>> THEN
                fpc' = "prompt" /\ out' = EnterQueryMessage /\ UNCHANGED requestvars
            ELSE fpc' = "handling" /\ out' = out /\ EnterRequest(ChatInput(m, up))
    /\ reads' = reads + 1
    /\ UNCHANGED <<frontend, startup, agent, stub, world, seen, path_arg, base_path, touched>>

\* agent_chat_interface: return str(response)
ChatReturn ==
    /\ frontend = "chat"
    /\ fpc = "handling"
    /\ pc = "done"
    /\ out' = ChatAnswer(ret)
    /\ fpc' = "prompt"
    /\ seen' = Remember
    /\ ForgetRequest
    /\ UNCHANGED <<frontend, startup, agent, stub, world, reads, line, path_arg, base_path, touched>>

AppNext ==
    \/ CliStart
    \/ CliRead
    \/ AppCallLLM
    \/ Interpret
    \/ Dispatch
    \/ AppExecute
    \/ CliPrint
    \/ CliInterrupt
    \/ ChatMessage
    \/ ChatReturn

AppSpec == AppInit /\ [][AppNext]_vars

----------------------------------------------------------------------------
(* FileReaderTool.execute called directly, over every short path *)

\* Most characters (separators, dots, runs of other characters) of a path.
MaxPath == 5

\* the paths written with the characters of /app, /app_secret, notes and dots
PathTexts ==
    UNION {[1..n -> {SEP, DOT, Word("app"), Word("_secret"), Word("notes")}] : n \in 0..MaxPath}

\* the values the LLM gives for file_path
FilePathValues ==
    {PyText(p) : p \in PathTexts}
    \cup {PyNone, PyNum("5"), PyList(<<PyText(DotDot)>>)}

\* the directories the process is started in
BasePaths == {FILE_READ_BASE_PATH, <<SEP>>}

\* execute(file_path=path_arg) is about to run; the same kind of file is
\* found at any path
FileInit ==
    /\ pc = "execute"
    /\ user_input = ""
    /\ llm = NoBehaviour
    /\ decision = None
    /\ tool_result = None
    /\ ret = None
    /\ llm_calls = 0
    /\ tool_calls = 0
    /\ frontend = "caller"
    /\ startup = [key |-> TRUE, client_raises |-> FALSE]
    /\ agent = InitializeAgent(startup)
    /\ stub = <<>>
    /\ world \in {[file |-> f, api_key |-> TRUE, net |-> "ok"] :
                    f \in {"missing", "directory", "too_large", "text", "pdf_text"}}
    /\ fpc = "prompt"
    /\ reads = 0
    /\ line = NoEvent
    /\ out = None
    /\ seen = <<>>
    /\ path_arg \in FilePathValues
    /\ base_path \in BasePaths
    /\ touched = <<>>

\* FileReaderTool.execute, from its call to its return
FileExecute ==
    /\ pc = "execute"
    /\ LET r == FileReaderRun(base_path, path_arg, world.file)
       IN /\ tool_result' = r.result
          /\ touched' = r.touched
    /\ tool_calls' = tool_calls + 1
    /\ pc' = "done"
    /\ UNCHANGED <<user_input, llm, decision, ret, llm_calls>>
    /\ UNCHANGED <<frontend, startup, agent, stub, world, fpc, reads, line, out, seen>>
    /\ UNCHANGED <<path_arg, base_path>>

FileSpec == FileInit /\ [][FileExecute]_vars

----------------------------------------------------------------------------
(* Properties *)

InFlight == pc \in {"determine", "interpret", "dispatch", "execute"}
Decided == pc \in {"dispatch", "execute", "done"}

\* the order of the steps of one request
Rank(p) ==
    CASE p = "idle" -> 0
      [] p = "determine" -> 1
      [] p = "interpret" -> 2
      [] p = "dispatch" -> 3
      [] p = "execute" -> 4
      [] OTHER -> 5

\* the step a request stands at can be taken
StepDefined ==
    /\ (pc = "dispatch" => decision.st = "ok" /\ IsDict(decision.v))
    /\ (pc = "execute" =>
            /\ ToolName(decision.v).t = "str"
            /\ ToolName(decision.v).s \in {"calculator", "file_reader", "weather_fetcher"})

\* C1: whatever the completion call does (raises, returns any content) and
\* whatever the tool does (returns, raises TypeError, raises another
\* exception), process_request ends by returning a value: every step of a
\* request can be taken and moves it towards its end, and no exception
\* reaches the caller.
C1_NeverRaises ==
    /\ [](StepDefined /\ ret.st # "exc" /\ (pc = "done" => ret.st = "ok"))
    /\ [][InFlight => Rank(pc') > Rank(pc)]_vars

\* a request in which the catch-all of process_request has acted
C1_Witness ==
    /\ pc = "done"
    /\ ret.st = "ok"
    /\ ret.v.t = "str"
    /\ ret.v.s = UnexpectedTemplate

\* C2 (as claimed): every value process_request returns is a text string,
\* the tool's result on the success path included.
C2_ReturnsText == pc = "done" => (ret.st = "ok" /\ IsStrValue(ret.v))

\* the reply, taken as it is, is a JSON object naming a registered tool with
\* parameters whose names are those of the tool's execute
WellFormedDecision(content) ==
    /\ content.t = "text"
    /\ LET r == JsonLoads(content.toks) IN
        /\ r.ok
        /\ IsDict(r.val)
        /\ DOMAIN r.val.m = {"tool", "parameters"}
        /\ r.val.m["tool"].t = "str"
        /\ r.val.m["tool"].s \in {"calculator", "file_reader", "weather_fetcher"}
        /\ IsDict(r.val.m["parameters"])
        /\ DOMAIN r.val.m["parameters"].m =
              (CASE r.val.m["tool"].s = "calculator" -> {"expression"}
                 [] r.val.m["tool"].s = "file_reader" -> {"file_path"}
                 [] OTHER -> {"city"})

\* C3: when the reply is a well-formed decision for a registered tool with
\* matching parameter names, the tool is called once with those parameters
\* and what its execute returned is what process_request returns, as it is.
C3_ReturnsToolResult ==
    (pc = "done" /\ ~llm.raises /\ WellFormedDecision(llm.content)) =>
        LET d == JsonLoads(llm.content.toks).val IN
        /\ tool_calls = 1
        /\ \E env \in Environments :
              tool_result = ToolExecute(d.m["tool"].s, d.m["parameters"].m, env)
        /\ (tool_result.st = "ok" => ret = Ok(tool_result.v))

\* the calculator's number comes back from process_request
C3_Witness ==
    /\ pc = "done"
    /\ ~llm.raises
    /\ WellFormedDecision(llm.content)
    /\ tool_result = Ok(PyFloat("4.0"))
    /\ ret = Ok(PyFloat("4.0"))

\* C4: _determine_tool never raises: for a reply that is no text, an empty
\* reply, text that is no JSON and JSON that is no object alike it returns a
\* mapping with a tool entry, which is an error sentinel or the tool entry
\* of the object parsed from the cleaned reply or from its first brace span.
C4_InterpreterNeverRaises ==
    Decided =>
        /\ decision.st = "ok"
        /\ IsDict(decision.v)
        /\ "tool" \in DOMAIN decision.v.m
        /\ \/ /\ decision.v.m["tool"].t = "str"
              /\ decision.v.m["tool"].s \in
                    {"error_parsing_llm_response", "error_in_tool_determination",
                     "error_invalid_llm_response_structure"}
           \/ /\ ~llm.raises
              /\ llm.content.t = "text"
              /\ \E src \in {CleanResponse(llm.content.toks),
                             FallbackSearch(llm.content.toks).span} :
                    /\ JsonLoads(src).ok
                    /\ decision.v = JsonLoads(src).val

\* a reply that is no text at all has been turned into a sentinel decision
C4_Witness ==
    /\ pc = "dispatch"
    /\ ~llm.raises
    /\ llm.content.t # "text"
    /\ decision.st = "ok"
    /\ decision.v.m["tool"] = PyStr("error_in_tool_determination")

\* C5 (as claimed): every decision _determine_tool returns has a tool entry
\* that is a string and a parameters entry that is a mapping.
C5_DecisionShape ==
    Decided =>
        /\ decision.st = "ok"
        /\ IsDict(decision.v)
        /\ "tool" \in DOMAIN decision.v.m
        /\ IsStrValue(decision.v.m["tool"])
        /\ "parameters" \in DOMAIN decision.v.m
        /\ IsDict(decision.v.m["parameters"])

\* the completion call returning the text t
Reply(t) == [raises |-> FALSE, text |-> "", content |-> PyText(t)]

\* neither parsing attempt of _determine_tool got a value out of the text
ParseFailed(t) ==
    /\ ~JsonLoads(CleanResponse(t)).ok
    /\ ~(FallbackSearch(t).found /\ JsonLoads(FallbackSearch(t).span).ok)

\* a code fence around a text: the opening marker, bare or tagged json, the
\* closing marker, and optional whitespace around each
FenceOpenings == {<<FENCE>>, <<FENCE, Word("json")>>}
Gaps == {<<>>, <<WS>>}
Fenced(t, open, g1, g2, g3, g4) == g1 \o open \o g2 \o t \o g3 \o <<FENCE>> \o g4

\* C6 (as claimed): when a reply is interpreted as a parsed decision or as a
\* structure error, the same reply wrapped in a code fence is interpreted
\* as the same decision.
C6_FenceInvariant ==
    (pc = "dispatch" /\ ~llm.raises /\ llm.content.t = "text"
        /\ ~ParseFailed(llm.content.toks)) =>
        \A open \in FenceOpenings : \A g1 \in Gaps, g2 \in Gaps, g3 \in Gaps, g4 \in Gaps :
            DetermineTool(Reply(Fenced(llm.content.toks, open, g1, g2, g3, g4))) = decision

\* the text has no fence marker of its own at either end
Unfenced(t) == ~StartsWith(Strip(t), <<FENCE>>) /\ ~EndsWith(Strip(t), <<FENCE>>)

\* the bare opening marker runs into a leading word json of the text
RunsIntoJson(t, open, g2) ==
    open = <<FENCE>> /\ g2 = <<>> /\ StartsWith(t, <<Word("json")>>)

\* C6 (amended): the same holds for a reply with no fence marker of its own
\* at either end, when the bare opening marker is not written directly
\* before a reply that begins with the word json.
C6_FenceInvariantUnfenced ==
    (pc = "dispatch" /\ ~llm.raises /\ llm.content.t = "text"
        /\ ~ParseFailed(llm.content.toks) /\ Unfenced(llm.content.toks)) =>
        \A open \in FenceOpenings : \A g1 \in Gaps, g2 \in Gaps, g3 \in Gaps, g4 \in Gaps :
            ~RunsIntoJson(llm.content.toks, open, g2) =>
                DetermineTool(Reply(Fenced(llm.content.toks, open, g1, g2, g3, g4))) = decision

\* an unfenced decision with nested parameters has been interpreted, and
\* fencing it changes the text that is parsed
C6_Witness ==
    /\ pc = "dispatch"
    /\ ~llm.raises
    /\ llm.content = PyText(Dumps(NestedDecision))
    /\ decision = Ok(NestedDecision)
    /\ DetermineTool(Reply(Fenced(llm.content.toks, <<FENCE, Word("json")>>, <<>>, <<WS>>, <<WS>>, <<>>)))
         = decision

\* C7 (as claimed): a reply that is one decision object with prose before or
\* after it is interpreted as the bare object is, also when the object's
\* parameters are themselves an object.
C7_ProseAroundObject ==
    (pc = "dispatch" /\ ~llm.raises /\ llm.content.t = "text") =>
        \A d \in EmbeddedDecisions : \A pre \in ProseBefore, suf \in ProseAfter :
            ((pre # <<>> \/ suf # <<>>) /\ llm.content.toks = pre \o Dumps(d) \o suf) =>
                /\ decision = DetermineTool(Reply(Dumps(d)))
                /\ decision = Ok(d)

\* some span from an opening to a closing brace of the text parses
SomeBraceSpanParses(t) ==
    \E i \in 1..Len(t) : \E j \in (i + 1)..Len(t) :
        /\ t[i] = P("{")
        /\ t[j] = P("}")
        /\ JsonLoads(SubSeq(t, i, j)).ok

\* the text holds no JSON object that parses
NoParseableObject(t) ==
    /\ ~(JsonLoads(CleanResponse(t)).ok /\ IsDict(JsonLoads(CleanResponse(t)).val))
    /\ ~SomeBraceSpanParses(t)

\* C8: for a reply that holds no parseable JSON object, process_request
\* returns the message that begins "Sorry, I had trouble deciding which tool
\* to use.", calls no tool and does not raise.
C8_NoJsonTroubleMessage ==
    (pc = "done" /\ ~llm.raises /\ llm.content.t = "text"
        /\ NoParseableObject(llm.content.toks)) =>
        /\ ret.st = "ok"
        /\ ret.v.t = "str"
        /\ ret.v.s = "Sorry, I had trouble deciding which tool to use. Details: {}"
        /\ tool_calls = 0
        /\ tool_result = None

\* a reply whose only brace span does not parse has been answered
C8_Witness ==
    /\ pc = "done"
    /\ ~llm.raises
    /\ llm.content = PyText(<<Word("Sure"), WS, P("{"), S("tool"), P("}"), WS, Word("Hope")>>)
    /\ NoParseableObject(llm.content.toks)
    /\ ret.st = "ok"
    /\ ret.v.s = "Sorry, I had trouble deciding which tool to use. Details: {}"
    /\ tool_calls = 0

\* C9 (as claimed): a decision whose tool value is non-empty, no sentinel,
\* not no_tool_needed and no key of the registry, of whatever JSON type, is
\* answered with the unknown-tool message naming that value, and no tool is
\* called.
C9_UnknownToolMessage ==
    (pc = "done" /\ decision.st = "ok") =>
        LET tool_name == ToolName(decision.v) IN
        ( /\ Truthy(tool_name)
          /\ ~(tool_name.t = "str" /\ tool_name.s \in
                 {"error_parsing_llm_response", "error_in_tool_determination",
                  "error_invalid_llm_response_structure", "no_tool_needed",
                  "calculator", "file_reader", "weather_fetcher"}) ) =>
            /\ ret = Ok(Fmt("Sorry, I don't know how to use the tool '{}' or it's not available.",
                            <<tool_name>>))
            /\ tool_calls = 0

\* the parameter names of each tool's execute
ExecuteParameterNames ==
    [calculator |-> <<"expression">>, file_reader |-> <<"file_path">>,
     weather_fetcher |-> <<"city">>]

IsMismatchMessage(r) ==
    /\ r.st = "ok"
    /\ r.v.t = "str"
    /\ r.v.s = "Error using tool {}: incorrect parameters. Expected: {}. Got: {}. Details: {}"

\* C10: a registered tool called with parameter names that are not those of
\* its execute (a wrong, an extra or a missing name, no names at all) is
\* answered with a message that names the tool, the expected names and the
\* names supplied; and that message is returned in no other case.
C10_ParameterMismatchMessage ==
    pc = "done" =>
        /\ tool_calls = 1 =>
            LET tool == ToolName(decision.v).s
                names == DOMAIN Parameters(decision.v).m
                expected == ExecuteParameterNames[tool]
            IN (names # Range(expected)) =>
                /\ IsMismatchMessage(ret)
                /\ ret.v.args[1] = PyStr(tool)
                /\ ret.v.args[2] = PyList([i \in 1..Len(expected) |-> PyStr(expected[i])])
                /\ ret.v.args[3] = [t |-> "keys", names |-> names]
        /\ IsMismatchMessage(ret) =>
            /\ tool_calls = 1
            /\ DOMAIN Parameters(decision.v).m
                 # Range(ExecuteParameterNames[ToolName(decision.v).s])

\* the calculator called with expr instead of expression
C10_Witness ==
    /\ pc = "done"
    /\ tool_calls = 1
    /\ ToolName(decision.v) = PyStr("calculator")
    /\ DOMAIN Parameters(decision.v).m = {"expr"}
    /\ IsMismatchMessage(ret)
    /\ ret.v.args[2] = PyList(<<PyStr("expression")>>)
    /\ ret.v.args[3] = [t |-> "keys", names |-> {"expr"}]

\* the reply, taken as it is, is a JSON object
IsJsonObject(content) ==
    /\ content.t = "text"
    /\ JsonLoads(content.toks).ok
    /\ JsonLoads(content.toks).val.t = "dict"

\* the empty JSON values: the empty string, null, the empty array and the
\* empty object
EmptyValues == {PyStr(""), PyNone, PyList(<<>>), PyDict(EmptyMap)}

IsFriendlyMessage(r) ==
    r = Ok(PyStr("I've processed your request. No specific tool was needed, or I couldn't determine one. How else can I help?"))

\* C11 (as claimed): when the LLM's JSON object has the tool no_tool_needed,
\* an empty tool, or no tool entry at all, process_request returns the fixed
\* friendly no-tool message and calls no tool.
C11_NoToolMessage ==
    (pc = "done" /\ ~llm.raises /\ IsJsonObject(llm.content)) =>
        LET obj == JsonLoads(llm.content.toks).val IN
        ( \/ "tool" \notin DOMAIN obj.m
          \/ obj.m["tool"] = PyStr("no_tool_needed")
          \/ obj.m["tool"] \in EmptyValues ) =>
            /\ IsFriendlyMessage(ret)
            /\ tool_calls = 0
            /\ tool_result = None

\* C11 (amended): the same for an object that has a tool entry whose value
\* is no_tool_needed or empty; an object without a tool entry is answered
\* with the trouble-deciding message instead, and no tool is called either.
C11_NoToolMessagePresent ==
    (pc = "done" /\ ~llm.raises /\ IsJsonObject(llm.content)) =>
        LET obj == JsonLoads(llm.content.toks).val IN
        /\ ( /\ "tool" \in DOMAIN obj.m
             /\ (obj.m["tool"] = PyStr("no_tool_needed") \/ obj.m["tool"] \in EmptyValues) ) =>
                /\ IsFriendlyMessage(ret)
                /\ tool_calls = 0
                /\ tool_result = None
        /\ "tool" \notin DOMAIN obj.m =>
                /\ ret.st = "ok"
                /\ ret.v.t = "str"
                /\ ret.v.s = "Sorry, I had trouble deciding which tool to use. Details: {}"
                /\ tool_calls = 0

\* an object whose tool is the empty string has been answered
C11_Witness ==
    /\ pc = "done"
    /\ ~llm.raises
    /\ llm.content = PyText(<<P("{"), S("tool"), P(":"), WS, S(""), P("}")>>)
    /\ decision = Ok(PyDict("tool" :> PyStr("")))
    /\ IsFriendlyMessage(ret)
    /\ tool_calls = 0

\* C12: when the completion call raises, _determine_tool returns the
\* sentinel decision error_in_tool_determination whose details are the
\* exception's text, and process_request returns the trouble-deciding message
\* with that text, without calling a tool.
C12_CompletionFailure ==
    (Decided /\ llm.raises) =>
        /\ decision =
              Ok(PyDict([tool |-> PyStr("error_in_tool_determination"),
                         parameters |-> PyDict([details |-> PyStr(llm.text)])]))
        /\ pc # "execute"
        /\ tool_calls = 0
        /\ tool_result = None
        /\ pc = "done" =>
              ret = Ok(Fmt("Sorry, I had trouble deciding which tool to use. Details: {}",
                           <<PyStr(llm.text)>>))

\* a request whose completion call raised has been answered
C12_Witness ==
    /\ pc = "done"
    /\ llm.raises
    /\ llm.text = "Connection error."
    /\ ret.st = "ok"
    /\ ret.v.args = <<PyStr("Connection error.")>>
    /\ tool_calls = 0

\* C13: a request makes exactly one completion call and at most one tool
\* call; the tool call comes after the completion call has returned and the
\* decision is made; and neither call is made a second time, whatever the
\* completion call, the parsing or the tool did.
C13_OneCallEach ==
    /\ [](/\ llm_calls <= 1
          /\ tool_calls <= 1
          /\ (pc \in {"interpret", "dispatch", "execute", "done"} => llm_calls = 1)
          /\ (pc \in {"idle", "determine"} => llm_calls = 0 /\ tool_calls = 0)
          /\ (tool_calls = 1 => pc = "done" /\ ~llm.raises))
    /\ [][llm_calls' > llm_calls => (llm_calls = 0 /\ llm_calls' = 1 /\ tool_calls' = 0)]_vars
    /\ [][tool_calls' > tool_calls =>
            /\ tool_calls = 0 /\ tool_calls' = 1
            /\ llm_calls = 1 /\ llm_calls' = 1
            /\ decision.st = "ok"
            /\ pc' = "done"]_vars

\* a request has ended after its completion call raised, with one call made
C13_Witness ==
    /\ pc = "done"
    /\ llm.raises
    /\ llm_calls = 1
    /\ tool_calls = 0

\* C14: when construction fails (no credential, or the client constructor
\* raises) initialize_agent returns no agent, and from then on no request is
\* processed: no completion call and no tool call is ever made, the chat
\* function answers every message with the fixed not-initialized error, and
\* run_cli exits before it reads any input.
C14_InitFailure ==
    /\ []((~startup.key \/ startup.client_raises) => agent = [st |-> "none"])
    /\ [](agent = [st |-> "none"] =>
            /\ pc = "idle"
            /\ llm_calls = 0
            /\ tool_calls = 0
            /\ decision = None
            /\ tool_result = None
            /\ (frontend = "cli" =>
                    /\ reads = 0
                    /\ fpc \in {"start", "exited"}
                    /\ (fpc = "exited" =>
                            out = PyStr("Failed to initialize the AI Agent. Exiting CLI.")))
            /\ (frontend = "chat" /\ reads > 0 =>
                    out = PyStr("Error: Agent not initialized. Check logs.")))
    /\ [][agent' = agent]_vars

\* the client constructor raised, and the chat function has answered two
\* messages
C14_Witness ==
    /\ frontend = "chat"
    /\ startup = [key |-> TRUE, client_raises |-> TRUE]
    /\ agent = [st |-> "none"]
    /\ reads = 2
    /\ line.text = <<WS, Word("hello"), WS>>
    /\ out = PyStr("Error: Agent not initialized. Check logs.")

\* C15: with an LLM stub and tools that are functions of their inputs, a
\* request gets the result that the same request got the first time,
\* whatever requests were processed in between; and processing a request
\* changes neither the tool registry, nor the system message, nor anything
\* else of the agent.
C15_Deterministic ==
    /\ []((pc = "done" /\ seen[user_input] # [st |-> "none"]) => ret = seen[user_input])
    /\ [][(pc # "idle" \/ pc' # "idle") =>
            /\ agent'.tools = agent.tools
            /\ agent'.system_message = agent.system_message
            /\ agent' = agent]_vars

\* 2+2 is asked a second time, after another request, and is answered as
\* it was the first time
C15_Witness ==
    /\ frontend = "cli"
    /\ reads = 3
    /\ pc = "done"
    /\ user_input = <<Word("2+2")>>
    /\ seen[<<Word("hello")>>] # [st |-> "none"]
    /\ seen[<<Word("2+2")>>] = Ok(PyFloat("4.0"))
    /\ ret = Ok(PyFloat("4.0"))

\* C16: a decision returned by _determine_tool, a parsed one or an error
\* sentinel, written out as JSON text with its parameters and interpreted
\* again, comes back as the same decision.
C16_RoundTrip ==
    Decided =>
        /\ decision.st = "ok"
        /\ DetermineTool(Reply(Dumps(decision.v))) = decision

\* a parse-failure sentinel, which holds the whole reply as raw_content, has
\* been returned and comes back from its own JSON text
C16_Witness ==
    /\ pc = "dispatch"
    /\ ~llm.raises
    /\ llm.content = PyText(<<Word("Sure"), WS, P("{"), S("tool"), P("}"), WS, Word("Hope")>>)
    /\ decision.v.m["tool"] = PyStr("error_parsing_llm_response")
    /\ decision.v.m["parameters"].m["raw_content"] = llm.content
    /\ JsonLoads(Dumps(decision.v)) = [ok |-> TRUE, val |-> decision.v]
    /\ DetermineTool(Reply(Dumps(decision.v))) = decision

\* a value a tool may return: a text, or the calculator's number
IsToolAnswer(v) == v.t \in {"str", "text", "float"}

\* C17 (as claimed): called with a value under the right parameter name, be
\* it a string, an empty string, a number, null or a list, each tool's
\* execute returns a descriptive text (or the numeric result) and never
\* raises to process_request.
C17_ToolsNeverRaise ==
    (pc = "done" /\ tool_calls = 1
        /\ DOMAIN Parameters(decision.v).m
              = Range(ExecuteParameterNames[ToolName(decision.v).s])) =>
        /\ tool_result.st = "ok"
        /\ IsToolAnswer(tool_result.v)

\* a typed line that is exit or quit once trimmed, in whatever case
TypedExit(ev) ==
    /\ ev.kind = "line"
    /\ ev.text \in {<<Word("exit")>>, <<Word("quit")>>, <<WS, Word("Quit"), WS>>}
\* a typed line that is empty once trimmed
TypedBlank(ev) == ev.kind = "line" /\ ev.text \in {<<>>, <<WS>>}

\* C18: in the loop of run_cli, an exit or quit line, the end of input and
\* an interrupt end the loop with no process_request call; an empty line is
\* skipped with no call; every other line makes exactly one call, with the
\* trimmed line, whose result is printed; and an exception while a line is
\* read or its result printed leaves the loop running.
C18_CliLoop ==
    /\ [][(frontend = "cli" /\ reads' = reads + 1) =>
            LET ev == line' IN
            /\ (ev.kind \in {"eof", "interrupt"} \/ TypedExit(ev)) =>
                    (fpc' = "exited" /\ pc' = "idle" /\ llm_calls' = 0 /\ tool_calls' = 0)
            /\ TypedBlank(ev) => (fpc' = "prompt" /\ pc' = "idle" /\ out' = out)
            /\ ev.kind = "error" => (fpc' = "prompt" /\ pc' = "idle")
            /\ (ev.kind = "line" /\ ~TypedExit(ev) /\ ~TypedBlank(ev)) =>
                    /\ fpc' = "handling"
                    /\ pc = "idle" /\ pc' = "determine"
                    /\ user_input' = Strip(ev.text)]_vars
    /\ [][(frontend = "cli" /\ pc = "idle" /\ pc' # "idle") => reads' = reads + 1]_vars
    /\ [][(frontend = "cli" /\ fpc = "handling" /\ fpc' # "handling") =>
            \/ /\ pc = "done"
               /\ fpc' = "prompt"
               /\ out' \in {ret.v, Fmt("An critical error occurred: {}", <<PyStr("print")>>)}
            \/ /\ fpc' = "exited"
               /\ out' = PyStr("Exiting agent.")]_vars
    /\ [][(frontend = "cli" /\ fpc = "exited") => fpc' = "exited"]_vars

\* a first line was processed and its result printed, then Quit, typed with
\* blanks around it, has ended the loop
C18_Witness ==
    /\ frontend = "cli"
    /\ reads = 2
    /\ seen[<<Word("hello")>>] # [st |-> "none"]
    /\ line = [kind |-> "line", text |-> <<WS, Word("Quit"), WS>>]
    /\ fpc = "exited"
    /\ pc = "idle"
    /\ out = PyStr("Exiting agent.")

\* the cleaned reply parses as JSON, to a value that is no decision
ParsesToNoDecision(content) ==
    /\ content.t = "text"
    /\ JsonLoads(CleanResponse(content.toks)).ok
    /\ LET v == JsonLoads(CleanResponse(content.toks)).val IN
          v.t # "dict" \/ "tool" \notin DOMAIN v.m

\* C19: when the cleaned reply parses to a value that is no mapping (a
\* number, a string, a list, a list holding a decision object) or to a
\* mapping without a tool key, _determine_tool returns the sentinel
\* error_invalid_llm_response_structure with the details text and the parsed
\* value as parsed_content, whatever a brace span of the reply would parse
\* to, and process_request returns the trouble-deciding message with those
\* details and calls no tool.
C19_StructureError ==
    (Decided /\ ~llm.raises /\ ParsesToNoDecision(llm.content)) =>
        /\ decision =
              Ok(PyDict([tool |-> PyStr("error_invalid_llm_response_structure"),
                         parameters |->
                            PyDict([details |-> PyStr("LLM response not a dict or missing 'tool' key."),
                                    parsed_content |-> JsonLoads(CleanResponse(llm.content.toks)).val])]))
        /\ pc # "execute"
        /\ tool_calls = 0
        /\ pc = "done" =>
              ret = Ok(Fmt("Sorry, I had trouble deciding which tool to use. Details: {}",
                           <<PyStr("LLM response not a dict or missing 'tool' key.")>>))

\* a fenced list holding a decision object, whose brace span would parse,
\* has been answered as a structure error
C19_Witness ==
    /\ pc = "done"
    /\ ~llm.raises
    /\ llm.content =
          PyText(<<FENCE, Word("json")>> \o Dumps(PyList(<<Obj1("tool", PyStr("calculator"))>>))
                 \o <<FENCE>>)
    /\ JsonLoads(FallbackSearch(llm.content.toks).span).val = Obj1("tool", PyStr("calculator"))
    /\ decision.v.m["parameters"].m["parsed_content"] = PyList(<<Obj1("tool", PyStr("calculator"))>>)
    /\ ret.v.s = "Sorry, I had trouble deciding which tool to use. Details: {}"
    /\ tool_calls = 0

\* the structure sentinel for the parsed value v
StructureSentinel(v) ==
    PyDict([tool |-> PyStr("error_invalid_llm_response_structure"),
            parameters |->
               PyDict([details |-> PyStr("LLM response not a dict or missing 'tool' key."),
                       parsed_content |-> v])])

\* the parse-failure sentinel with the given details for the reply content
ParsingSentinel(details, content) ==
    PyDict([tool |-> PyStr("error_parsing_llm_response"),
            parameters |-> PyDict([details |-> PyStr(details), raw_content |-> content])])

\* what a parsed value v becomes: itself, or the structure sentinel
Validated(v) ==
    IF v.t = "dict" /\ "tool" \in DOMAIN v.m THEN v ELSE StructureSentinel(v)

\* the first opening brace of t and the first closing brace after it
FirstOpen(t) == CHOOSE i \in 1..Len(t) : t[i] = P("{") /\ \A h \in 1..(i - 1) : t[h] # P("{")
ClosesBrace(tok) == tok = P("}") \/ tok = S("a}b")
FirstCloseAfter(t, i) ==
    CHOOSE j \in (i + 1)..Len(t) : ClosesBrace(t[j]) /\ \A h \in (i + 1)..(j - 1) : ~ClosesBrace(t[h])
HasFirstSpan(t) ==
    \E i \in 1..Len(t) : t[i] = P("{") /\ \E j \in (i + 1)..Len(t) : ClosesBrace(t[j])

\* C20: the brace-span search is made only when strict parsing of the
\* cleaned reply has failed; it looks at the reply as it came and only at
\* its first span from the first opening brace to the first closing brace
\* after it; when that span does not parse, or there is none, the decision is
\* the error_parsing_llm_response sentinel with the whole reply, unchanged,
\* as raw_content, whatever later spans the reply holds.
C20_StagedExtraction ==
    (Decided /\ ~llm.raises /\ llm.content.t = "text") =>
        LET t == llm.content.toks
            strict == JsonLoads(CleanResponse(t))
        IN IF strict.ok THEN decision = Ok(Validated(strict.val))
           ELSE IF ~HasFirstSpan(t) THEN
               decision = Ok(ParsingSentinel(
                   "Could not parse JSON from LLM, and fallback regex found nothing.", llm.content))
           ELSE LET i == FirstOpen(t)
                    j == FirstCloseAfter(t, i)
                    whole == t[j] = P("}")
                    parsed == JsonLoads(SubSeq(t, i, j))
                IN IF whole /\ parsed.ok THEN decision = Ok(Validated(parsed.val))
                   ELSE decision = Ok(ParsingSentinel(
                       "Could not parse JSON from LLM after cleaning and fallback.", llm.content))

\* a reply whose first brace span does not parse and whose second is a
\* decision has become the parse-failure sentinel holding the whole reply
C20_Witness ==
    /\ pc = "dispatch"
    /\ ~llm.raises
    /\ llm.content = PyText(<<P("{"), S("tool"), P("}"), WS>> \o Dumps(FlatDecision))
    /\ SomeBraceSpanParses(llm.content.toks)
    /\ decision.v.m["tool"] = PyStr("error_parsing_llm_response")
    /\ decision.v.m["parameters"].m["raw_content"] = llm.content

\* the location p is the directory base or lies below it
Inside(p, base) ==
    \/ p = base
    \/ StartsWith(p, IF EndsWith(base, <<SEP>>) THEN base ELSE base \o <<SEP>>)

\* the Error: strings of the path checks
PathErrors ==
    {PyStr("Error: Access denied. Path is outside allowed directory."),
     PyStr("Error: Path should not contain '..'."),
     PyStr("Error: Absolute file paths are not allowed.")}

\* the file_path of the call is a string that is absolute, contains "..", or
\* resolves to a location outside the base directory
UnsafePath ==
    /\ IsStrValue(path_arg)
    /\ \/ IsAbs(PathOf(path_arg))
       \/ HasDotDot(PathOf(path_arg))
       \/ ~Inside(AbsPath(base_path, Join(base_path, PathOf(path_arg))), base_path)

\* C21: FileReaderTool.execute makes no file system call (existence check,
\* file check, size check, open) on a location outside FILE_READ_BASE_PATH,
\* whatever file_path is; and for a file_path that is absolute, contains "..",
\* or resolves outside the base directory (a sibling directory whose name
\* begins with the base path's characters included) it returns one of the
\* Error: strings of the path checks without any file system call
C21_PathSafety ==
    pc = "done" =>
        /\ \A i \in 1..Len(touched) : Inside(touched[i].path, base_path)
        /\ UnsafePath => (touched = <<>> /\ tool_result \in {Ok(e) : e \in PathErrors})

\* C21 witness: a readable file lies in the sibling directory /app_secret of
\* the base directory /app, the path ../app_secret resolves to it and passes
\* the prefix check, and execute has returned the ".." error untouched
C21_Witness ==
    /\ pc = "done"
    /\ base_path = FILE_READ_BASE_PATH
    /\ path_arg = PyText(<<DOT, DOT, SEP, Word("app"), Word("_secret")>>)
    /\ AbsPath(base_path, Join(base_path, PathOf(path_arg))) = <<SEP, Word("app"), Word("_secret")>>
    /\ world.file = "text"
    /\ tool_result = Ok(PyStr("Error: Path should not contain '..'."))
    /\ touched = <<>>

====
